---------------------------- MODULE Spec2Model ----------------------------
(***************************************************************************)
(* A model of the two Streamlit applications of the repository:            *)
(*   src/streamlit_app_QuestionGen.py  the "Questions" page (quiz session) *)
(*   src/streamlit_app.py              the lesson-plan builder             *)
(*                                                                         *)
(* Text is a sequence of tokens.  A token is either one character ("\n",   *)
(* " ", "*") or a run of characters that the code never looks inside       *)
(* ("Overview:", "a)", "2.", "Answer:", "foo").  split, strip, join,       *)
(* re.split, replace and the substring tests are computed on these         *)
(* sequences the way the Python code computes them on strings.             *)
(*                                                                         *)
(* A Streamlit script run executes the script top to bottom.  pc is the    *)
(* position of the run in the script, pressed the buttons whose trigger is *)
(* set in this run.  Streamlit coalesces rerun requests that arrive before *)
(* the script thread picks them up, so more than one trigger can be set in *)
(* a single run.                                                           *)
(***************************************************************************)
EXTENDS Integers, Sequences, FiniteSets, TLC

VARIABLES
    \* st.session_state of streamlit_app_QuestionGen.py
    generated_questions, current_score, total_questions, answered_questions,
    \* one script run of the Questions page
    pc, qi, pressed, question_type, topic_prompt, model_bound, user_answer,
    \* history variable: the indices whose Submit added a point
    credited,
    \* st.session_state of streamlit_app.py and the dict objects it refers to
    heap, current_lesson, generated_lessons, current_view, clock,
    \* one script run of the lesson-plan builder
    lpc, lpressed, edit, form, sections, sj,
    \* the last awaited call of regenerate_single_question
    call,
    \* st.session_state of the "Lesson Plan" page of
    \* streamlit_app_QuestionGen.py, its file uploader and one script run
    lesson_plan_content, section_questions, uploaded_file, spc, si, spressed,
    \* a text handed to one of the two parsers, and what the parser returned
    raw_text, parsed

quizVars == <<generated_questions, current_score, total_questions,
              answered_questions, pc, qi, pressed, question_type,
              topic_prompt, model_bound, user_answer, credited>>

lessonVars == <<heap, current_lesson, generated_lessons, current_view, clock,
                lpc, lpressed, edit, form, sections, sj>>

helperVars == <<call>>

sectionVars == <<lesson_plan_content, section_questions, uploaded_file, spc,
                 si, spressed>>

parserVars == <<raw_text, parsed>>

\* what a step of the Questions page leaves alone
notQuizVars == <<lessonVars, helperVars, sectionVars, parserVars>>

\* what a step of the lesson-plan builder leaves alone
notLessonVars == <<quizVars, helperVars, sectionVars, parserVars>>

\* what regenerate_single_question leaves alone, next to the run of the
\* Questions page
notHelperVars == <<lessonVars, sectionVars, parserVars>>

\* what a step of the Lesson Plan page leaves alone
notSectionVars == <<quizVars, lessonVars, helperVars, parserVars>>

\* what a call of a parser leaves alone
notParserVars == <<quizVars, lessonVars, helperVars, sectionVars>>

vars == <<quizVars, lessonVars, helperVars, sectionVars, parserVars>>

----------------------------------------------------------------------------
(* Bounds of the model *)

\* triggers that one script run can carry
MaxPressed == 2

\* lessons generated in one session
MaxLessons == 2

\* the largest index a caller passes to regenerate_single_question
MaxIndex == 2

\* awaited calls of regenerate_single_question in one session
MaxCalls == 1

\* sections of an uploaded lesson plan
MaxSections == 2

\* questions generated into the sections of the lesson plan in one session
MaxSectionQuestions == 2

\* lines of a text handed to parse_generated_questions
MaxLines == 3

\* lines of a text handed to parse_lesson_sections
MaxSectionLines == 4

----------------------------------------------------------------------------
(* Python string operations on token sequences *)

IsSpace(c) == c \in {" ", "\n"}

RECURSIVE LStrip(_)
LStrip(s) == IF s # <<>> /\ IsSpace(Head(s)) THEN LStrip(Tail(s)) ELSE s

RECURSIVE RStrip(_)
RStrip(s) ==
    IF s # <<>> /\ IsSpace(s[Len(s)]) THEN RStrip(SubSeq(s, 1, Len(s) - 1)) ELSE s

\* str.strip()
Strip(s) == RStrip(LStrip(s))

RECURSIVE SplitAcc(_, _)
SplitAcc(s, cur) ==
    IF s = <<>> THEN <<cur>>
    ELSE IF Head(s) = "\n" THEN <<cur>> \o SplitAcc(Tail(s), <<>>)
    ELSE SplitAcc(Tail(s), Append(cur, Head(s)))

\* str.split('\n')
SplitLines(s) == SplitAcc(s, <<>>)

RECURSIVE JoinLines(_)
\* '\n'.join(lines)
JoinLines(lines) ==
    IF lines = <<>> THEN <<>>
    ELSE IF Len(lines) = 1 THEN lines[1]
    ELSE lines[1] \o <<"\n">> \o JoinLines(Tail(lines))

\* x in s, for a token x
Contains(s, x) == \E k \in 1..Len(s) : s[k] = x

\* str.lower(), token by token
LowerTok(c) ==
    CASE c = "True" -> "true"
      [] c = "False" -> "false"
      [] c = "Correct:" -> "correct:"
      [] c = "Answer:" -> "answer:"
      [] c = "A)" -> "a)"
      [] c = "B)" -> "b)"
      [] OTHER -> c

Lower(s) == [k \in 1..Len(s) |-> LowerTok(s[k])]

RECURSIVE Remove(_, _)
\* s.replace(x, '')
Remove(s, x) ==
    IF s = <<>> THEN <<>>
    ELSE IF Head(s) = x THEN Remove(Tail(s), x)
    ELSE <<Head(s)>> \o Remove(Tail(s), x)

----------------------------------------------------------------------------
(* parse_generated_questions *)

\* a decimal-numbered prefix, \d+\.
IsNumberDot(c) == c \in {"1.", "2."}

\* a literal marker, Question \d+:
IsQuestionN(c) == c \in {"Question 1:", "Question 2:"}

RECURSIVE ReSplitAcc(_, _)
ReSplitAcc(s, cur) ==
    IF s = <<>> THEN <<cur>>
    ELSE IF Head(s) = "\n" /\ Len(s) >= 2 /\ IsNumberDot(s[2])
         THEN <<cur>> \o ReSplitAcc(Tail(Tail(s)), <<>>)
    ELSE IF IsQuestionN(Head(s))
         THEN <<cur>> \o ReSplitAcc(Tail(s), <<>>)
    ELSE ReSplitAcc(Tail(s), Append(cur, Head(s)))

\* re.split(r'\n\d+\.|Question \d+:', text)
ReSplit(text) == ReSplitAcc(text, <<>>)

\* line.strip().startswith(('a)', 'b)', 'c)', 'd)', 'A)', 'B)', 'C)', 'D)'))
StartsWithMarker(line) ==
    LET l == Strip(line)
    IN  l # <<>> /\ l[1] \in {"a)", "b)", "c)", "d)", "A)", "B)", "C)", "D)"}

\* 'correct' in option.lower()
ContainsCorrect(option) ==
    \E k \in 1..Len(option) :
        LowerTok(option[k]) \in {"correct", "(correct)", "correct:", "incorrect"}

\* option.replace('*', '').replace('(correct)', '').strip()
CleanOption(option) == Strip(Remove(Remove(option, "*"), "(correct)"))

RECURSIVE ScanOptions(_, _)
\* the loop over lines[1:] of a Multiple Choice block; acc is
\* [options, found, correct_answer], found = (correct_answer is not None)
ScanOptions(lines, acc) ==
    IF lines = <<>> THEN acc
    ELSE IF StartsWithMarker(lines[1])
         THEN LET option == Strip(Tail(Strip(lines[1])))
                  marked == Contains(option, "*") \/ ContainsCorrect(option)
              IN  ScanOptions(Tail(lines),
                      [options |-> Append(acc.options, CleanOption(option)),
                       found |-> acc.found \/ marked,
                       correct_answer |-> IF marked THEN CleanOption(option)
                                          ELSE acc.correct_answer])
    ELSE ScanOptions(Tail(lines), acc)

\* a Multiple Choice branch without the test of line 378
ParseMCBlockUnchecked(block) ==
    IF Strip(block) = <<>> THEN <<>>
    ELSE LET lines == SplitLines(Strip(block))
             r == ScanOptions(Tail(lines),
                      [options |-> <<>>, found |-> FALSE, correct_answer |-> <<>>])
         IN  << [question |-> Strip(lines[1]), options |-> r.options,
                 correct_answer |-> r.correct_answer,
                 type |-> "multiple_choice"] >>

\* one block of the Multiple Choice branch: the questions it appends
ParseMCBlock(block) ==
    IF Strip(block) = <<>> THEN <<>>
    ELSE LET lines == SplitLines(Strip(block))
             question == Strip(lines[1])
             r == ScanOptions(Tail(lines),
                      [options |-> <<>>, found |-> FALSE, correct_answer |-> <<>>])
         IN  IF question # <<>> /\ r.options # <<>> /\ r.found
                /\ r.correct_answer # <<>>
             THEN << [question |-> question, options |-> r.options,
                      correct_answer |-> r.correct_answer,
                      type |-> "multiple_choice"] >>
             ELSE <<>>

\* a scan that takes every block to hold an answer line
ScanAnswerAlways(lines, acc) == [found |-> TRUE, correct_answer |-> <<"False">>]

RECURSIVE ScanAnswer(_, _)
\* the loop over lines of a True/False block; acc is [found, correct_answer]
ScanAnswer(lines, acc) ==
    IF lines = <<>> THEN acc
    ELSE IF Contains(lines[1], "Answer:") \/ Contains(lines[1], "Correct:")
         THEN ScanAnswer(Tail(lines),
                  [found |-> TRUE,
                   correct_answer |-> IF Contains(Lower(lines[1]), "true")
                                      THEN <<"True">> ELSE <<"False">>])
    ELSE ScanAnswer(Tail(lines), acc)

\* one block of the True/False branch
ParseTFBlock(block) ==
    IF Strip(block) = <<>> THEN <<>>
    ELSE LET lines == SplitLines(Strip(block))
             question == Strip(lines[1])
             r == ScanAnswer(lines, [found |-> FALSE, correct_answer |-> <<>>])
         IN  IF question # <<>> /\ r.found
             THEN << [question |-> question, correct_answer |-> r.correct_answer,
                      type |-> "true_false"] >>
             ELSE <<>>

\* one block of the Short Answer / Open Ended branch
ParseSABlock(block, qtype) ==
    IF Strip(block) = <<>> THEN <<>>
    ELSE LET lines == SplitLines(Strip(block))
             question == Strip(lines[1])
             sample_answer == Strip(JoinLines(Tail(lines)))
         IN  IF question # <<>>
             THEN << [question |-> question, sample_answer |-> sample_answer,
                      type |-> IF qtype = "Open Ended" THEN "open_ended"
                               ELSE "short_answer"] >>
             ELSE <<>>

RECURSIVE ParseBlocks(_, _)
ParseBlocks(blocks, qtype) ==
    IF blocks = <<>> THEN <<>>
    ELSE (CASE qtype = "Multiple Choice" -> ParseMCBlock(blocks[1])
            [] qtype = "True/False" -> ParseTFBlock(blocks[1])
            [] OTHER -> ParseSABlock(blocks[1], qtype))
         \o ParseBlocks(Tail(blocks), qtype)

QuestionTypes == {"Multiple Choice", "True/False", "Short Answer", "Open Ended"}

parse_generated_questions(text, qtype) ==
    IF qtype \in QuestionTypes THEN ParseBlocks(ReSplit(text), qtype) ELSE <<>>

\* check_answer: TRUE, FALSE, or "None"
check_answer(question, answer) ==
    IF question.type = "multiple_choice"
    THEN answer = question.correct_answer
    ELSE IF question.type = "true_false"
    THEN Lower(answer) = Lower(question.correct_answer)
    ELSE "None"

----------------------------------------------------------------------------
(* The LLM collaborator: the texts response.text can hold *)

\* two well-formed Multiple Choice questions
RespMC ==
    <<"What?", "\n", "a)", " ", "x", "\n", "b)", " ", "*", "y", "\n",
      "2.", " ", "Which?", "\n", "a)", " ", "y", " ", "(correct)", "\n",
      "b)", " ", "x">>

\* two well-formed True/False questions
RespTF ==
    <<"1.", " ", "Sky?", "\n", "Answer:", " ", "True", "\n",
      "2.", " ", "Fish?", "\n", "Answer:", " ", "False">>

\* a Multiple Choice block without a marked option
RespNone == <<"Hm?", "\n", "a)", " ", "x">>

\* an empty text
RespEmpty == <<>>

Responses == {RespMC, RespTF, RespNone, RespEmpty}

----------------------------------------------------------------------------
(* The Questions page of streamlit_app_QuestionGen.py *)

Max(a, b) == IF a >= b THEN a ELSE b

\* generated_questions[i], i counted from 0 as in the code
At(qs, i) == qs[i + 1]

Scored(q) == q.type \in {"multiple_choice", "true_false"}

\* the buttons of the page as the last run rendered them
Buttons ==
    {<<"generate", 0>>, <<"clear", 0>>}
    \cup {<<"refresh", i>> : i \in 0..(Len(generated_questions) - 1)}
    \cup {<<"submit", i>> : i \in {j \in 0..(Len(generated_questions) - 1) :
                                     Scored(At(generated_questions, j))}}
    \cup {<<"show", i>> : i \in {j \in 0..(Len(generated_questions) - 1) :
                                   ~Scored(At(generated_questions, j))}}

\* the options the radio of question q offers
AnswerChoices(q) ==
    IF q.type = "multiple_choice" THEN {q.options[k] : k \in 1..Len(q.options)}
    ELSE {<<"True">>, <<"False">>}

QuizInit ==
    /\ generated_questions = <<>>
    /\ current_score = 0
    /\ total_questions = 0
    /\ answered_questions = {}
    /\ pc = "idle"
    /\ qi = 0
    /\ pressed = {}
    /\ question_type = "Multiple Choice"
    /\ topic_prompt = <<>>
    /\ model_bound = FALSE
    /\ user_answer = <<>>
    /\ credited = {}

\* where the run goes once it reaches "if st.session_state.generated_questions:"
LoopEntry(qs) == IF qs = <<>> THEN "end" ELSE "refresh"

\* where the run goes after the answer widgets of question i
AfterAnswer(qs, i) == IF i + 1 < Len(qs) THEN "refresh" ELSE "end"

\* a user interaction starts a script run: the sidebar widgets are read, the
\* triggers of the clicked buttons are set, the script's namespace is fresh.
\* question_type is read by the generate and refresh handlers alone and
\* topic_prompt decides nothing but the generate handler's branch.
Interact ==
    /\ pc = "idle"
    /\ pressed' \in {P \in SUBSET Buttons : Cardinality(P) <= MaxPressed}
    /\ question_type' \in IF \E b \in pressed' : b[1] \in {"generate", "refresh"}
                          THEN QuestionTypes ELSE {"Multiple Choice"}
    /\ topic_prompt' \in IF <<"generate", 0>> \in pressed'
                         THEN {<<>>, <<"topic">>} ELSE {<<>>}
    /\ pc' = "generate"
    /\ UNCHANGED notQuizVars
    /\ UNCHANGED <<generated_questions, current_score, total_questions,
                   answered_questions, credited, qi, model_bound, user_answer>>

\* the values lines 573-576 store
LoadScoreKeep(qs) == current_score

LoadScore(qs) == 0

LoadTotal(qs) == Len(qs)

LoadAnsweredKeep(qs) == answered_questions

LoadAnswered(qs) == {}

\* "Generate Questions" with a topic, the LLM returning text
GenerateQuestions ==
    /\ pc = "generate"
    /\ <<"generate", 0>> \in pressed
    /\ topic_prompt # <<>>
    /\ \E text \in Responses :
        LET qs == parse_generated_questions(text, question_type)
        IN  /\ generated_questions' = qs
            /\ current_score' = LoadScore(qs)
            /\ total_questions' = LoadTotal(qs)
            /\ answered_questions' = LoadAnswered(qs)
    /\ credited' = {}
    /\ model_bound' = TRUE
    /\ pc' = "clear"
    /\ pressed' = pressed \ {<<"generate", 0>>}
    /\ UNCHANGED notQuizVars
    /\ UNCHANGED <<qi, question_type, topic_prompt, user_answer>>

\* "Generate Questions" with a topic, generate_content or response.text raising
GenerateQuestionsError ==
    /\ pc = "generate"
    /\ <<"generate", 0>> \in pressed
    /\ topic_prompt # <<>>
    /\ model_bound' = TRUE
    /\ pc' = "clear"
    /\ pressed' = pressed \ {<<"generate", 0>>}
    /\ UNCHANGED notQuizVars
    /\ UNCHANGED <<generated_questions, current_score, total_questions,
                   answered_questions, credited, qi, question_type,
                   topic_prompt, user_answer>>

\* "Generate Questions" without a topic: st.warning
GenerateQuestionsNoTopic ==
    /\ pc = "generate"
    /\ <<"generate", 0>> \in pressed
    /\ topic_prompt = <<>>
    /\ pc' = "clear"
    /\ pressed' = pressed \ {<<"generate", 0>>}
    /\ UNCHANGED notQuizVars
    /\ UNCHANGED <<generated_questions, current_score, total_questions,
                   answered_questions, credited, qi, question_type,
                   topic_prompt, model_bound, user_answer>>

\* line 349: the score clear_questions stores
ClearScoreKeep(score) == score

ClearScore(score) == 0

\* "Clear Questions": clear_questions()
ClearQuestions ==
    /\ pc = "clear"
    /\ <<"clear", 0>> \in pressed
    /\ generated_questions' = <<>>
    /\ current_score' = ClearScore(current_score)
    /\ total_questions' = 0
    /\ answered_questions' = {}
    /\ credited' = {}
    /\ pc' = LoopEntry(generated_questions')
    /\ pressed' = pressed \ {<<"clear", 0>>}
    /\ UNCHANGED notQuizVars
    /\ UNCHANGED <<qi, question_type, topic_prompt, model_bound, user_answer>>

\* lines 629-634: what a regeneration of question i stores
RegenQuestionsAll(qs, i, q) == [k \in 1..Len(qs) |-> q]

RegenQuestions(qs, i, q) == [qs EXCEPT ![i + 1] = q]

RegenAnswered(answered, i) == answered \ {i}

RegenScoreKeep(answered, score, i) == score

RegenScore(answered, score, i) ==
    IF i \in answered THEN Max(0, score - 1) ELSE score

\* the refresh button of question qi, the name model bound, the LLM returning
\* text that parses to at least one question; st.rerun() ends the run
Regenerate ==
    /\ pc = "refresh"
    /\ <<"refresh", qi>> \in pressed
    /\ model_bound
    /\ \E text \in Responses :
        LET new_questions == parse_generated_questions(text, question_type)
        IN  /\ new_questions # <<>>
            /\ generated_questions' =
                   RegenQuestions(generated_questions, qi, new_questions[1])
    /\ answered_questions' = RegenAnswered(answered_questions, qi)
    /\ current_score' = RegenScore(answered_questions, current_score, qi)
    /\ credited' = credited \ {qi}
    /\ pc' = "end"
    /\ pressed' = pressed \ {<<"refresh", qi>>}
    /\ UNCHANGED notQuizVars
    /\ UNCHANGED <<total_questions, qi, question_type, topic_prompt,
                   model_bound, user_answer>>

\* the refresh button of question qi, the name model bound, the LLM returning
\* text that parses to no question
RegenerateNothing ==
    /\ pc = "refresh"
    /\ <<"refresh", qi>> \in pressed
    /\ model_bound
    /\ \E text \in Responses :
        parse_generated_questions(text, question_type) = <<>>
    /\ pc' = "answer"
    /\ pressed' = pressed \ {<<"refresh", qi>>}
    /\ UNCHANGED notQuizVars
    /\ UNCHANGED <<generated_questions, current_score, total_questions,
                   answered_questions, credited, qi, question_type,
                   topic_prompt, model_bound, user_answer>>

\* the refresh button of question qi in a run that did not execute line 564:
\* model is unbound at line 624, the NameError is caught at line 636
RegenerateNameError ==
    /\ pc = "refresh"
    /\ <<"refresh", qi>> \in pressed
    /\ ~model_bound
    /\ pc' = "answer"
    /\ pressed' = pressed \ {<<"refresh", qi>>}
    /\ UNCHANGED notQuizVars
    /\ UNCHANGED <<generated_questions, current_score, total_questions,
                   answered_questions, credited, qi, question_type,
                   topic_prompt, model_bound, user_answer>>

\* the refresh button of question qi, the name model bound, generate_content
\* raising: caught at line 636
RegenerateError ==
    /\ pc = "refresh"
    /\ <<"refresh", qi>> \in pressed
    /\ model_bound
    /\ pc' = "answer"
    /\ pressed' = pressed \ {<<"refresh", qi>>}
    /\ UNCHANGED notQuizVars
    /\ UNCHANGED <<generated_questions, current_score, total_questions,
                   answered_questions, credited, qi, question_type,
                   topic_prompt, model_bound, user_answer>>

\* lines 650-656 and 668-674: what Submit stores
SubmitScoreUnguarded(question, answer, answered, score, i) ==
    IF check_answer(question, answer) = TRUE THEN score + 1 ELSE score

SubmitScore(question, answer, answered, score, i) ==
    IF check_answer(question, answer) = TRUE /\ i \notin answered
    THEN score + 1 ELSE score

SubmitAnswered(answered, i) == answered \cup {i}

\* the Submit button of a multiple_choice or true_false question
Submit ==
    /\ pc = "answer"
    /\ <<"submit", qi>> \in pressed
    /\ Scored(At(generated_questions, qi))
    /\ \E a \in AnswerChoices(At(generated_questions, qi)) :
        /\ user_answer' = a
        /\ current_score' = SubmitScore(At(generated_questions, qi), a,
                                        answered_questions, current_score, qi)
        /\ credited' = IF current_score' # current_score
                       THEN credited \cup {qi} ELSE credited
    /\ answered_questions' = SubmitAnswered(answered_questions, qi)
    /\ pc' = AfterAnswer(generated_questions, qi)
    /\ qi' = IF pc' = "refresh" THEN qi + 1 ELSE qi
    /\ pressed' = pressed \ {<<"submit", qi>>, <<"show", qi>>}
    /\ UNCHANGED notQuizVars
    /\ UNCHANGED <<generated_questions, total_questions, question_type,
                   topic_prompt, model_bound>>

\* line 685
ShowAnsweredNot(answered, i) == answered

ShowAnswered(answered, i) == answered \cup {i}

\* the Show Sample Answer button of a short_answer or open_ended question
ShowSampleAnswer ==
    /\ pc = "answer"
    /\ <<"show", qi>> \in pressed
    /\ ~Scored(At(generated_questions, qi))
    /\ answered_questions' = ShowAnswered(answered_questions, qi)
    /\ pc' = AfterAnswer(generated_questions, qi)
    /\ qi' = IF pc' = "refresh" THEN qi + 1 ELSE qi
    /\ pressed' = pressed \ {<<"submit", qi>>, <<"show", qi>>}
    /\ UNCHANGED notQuizVars
    /\ UNCHANGED <<generated_questions, current_score, total_questions,
                   credited, question_type, topic_prompt, model_bound,
                   user_answer>>

\* a button of the script that is not pressed in this run (or not rendered)
SkipGenerate ==
    /\ pc = "generate"
    /\ <<"generate", 0>> \notin pressed
    /\ pc' = "clear"
    /\ UNCHANGED notQuizVars
    /\ UNCHANGED <<generated_questions, current_score, total_questions,
                   answered_questions, credited, qi, pressed, question_type,
                   topic_prompt, model_bound, user_answer>>

SkipClear ==
    /\ pc = "clear"
    /\ <<"clear", 0>> \notin pressed
    /\ pc' = LoopEntry(generated_questions)
    /\ UNCHANGED notQuizVars
    /\ UNCHANGED <<generated_questions, current_score, total_questions,
                   answered_questions, credited, qi, pressed, question_type,
                   topic_prompt, model_bound, user_answer>>

SkipRefresh ==
    /\ pc = "refresh"
    /\ <<"refresh", qi>> \notin pressed
    /\ pc' = "answer"
    /\ UNCHANGED notQuizVars
    /\ UNCHANGED <<generated_questions, current_score, total_questions,
                   answered_questions, credited, qi, pressed, question_type,
                   topic_prompt, model_bound, user_answer>>

SkipAnswer ==
    /\ pc = "answer"
    /\ IF Scored(At(generated_questions, qi))
       THEN <<"submit", qi>> \notin pressed
       ELSE <<"show", qi>> \notin pressed
    /\ pc' = AfterAnswer(generated_questions, qi)
    /\ qi' = IF pc' = "refresh" THEN qi + 1 ELSE qi
    /\ pressed' = pressed \ {<<"submit", qi>>, <<"show", qi>>}
    /\ UNCHANGED notQuizVars
    /\ UNCHANGED <<generated_questions, current_score, total_questions,
                   answered_questions, credited, question_type, topic_prompt,
                   model_bound, user_answer>>

\* the run is over: its triggers are reset and its namespace is dropped
EndRun ==
    /\ pc = "end"
    /\ pc' = "idle"
    /\ qi' = 0
    /\ pressed' = {}
    /\ question_type' = "Multiple Choice"
    /\ topic_prompt' = <<>>
    /\ model_bound' = FALSE
    /\ user_answer' = <<>>
    /\ UNCHANGED notQuizVars
    /\ UNCHANGED <<generated_questions, current_score, total_questions,
                   answered_questions, credited>>

QuizNext ==
    \/ Interact
    \/ GenerateQuestions
    \/ GenerateQuestionsError
    \/ GenerateQuestionsNoTopic
    \/ ClearQuestions
    \/ Regenerate
    \/ RegenerateNothing
    \/ RegenerateError
    \/ RegenerateNameError
    \/ Submit
    \/ ShowSampleAnswer
    \/ SkipGenerate
    \/ SkipClear
    \/ SkipRefresh
    \/ SkipAnswer
    \/ EndRun

----------------------------------------------------------------------------
(* parse_lesson_sections of streamlit_app.py *)

Labels ==
    {"Overview:", "Learning Objectives:", "Required Materials:",
     "Preparation Steps:", "Lesson Procedure:", "Extensions and Modifications:",
     "Assessment Criteria:", "Safety Considerations:", "Take-Home Connection:"}

\* any(section in line for section in [...])
IsHeader(line) == \E k \in 1..Len(line) : line[k] \in Labels

\* d[k] = v on an insertion-ordered dict, a sequence of [key, value]
DictSet(d, k, v) ==
    IF \E j \in 1..Len(d) : d[j].key = k
    THEN [j \in 1..Len(d) |->
             IF d[j].key = k THEN [key |-> k, value |-> v] ELSE d[j]]
    ELSE Append(d, [key |-> k, value |-> v])

RECURSIVE ScanSections(_, _)
\* the loop over content.split('\n'); acc is [sections, current_section,
\* current_content], current_section = <<>> standing for None
ScanSections(lines, acc) ==
    IF lines = <<>> THEN acc
    ELSE IF IsHeader(lines[1])
         THEN ScanSections(Tail(lines),
                  [sections |->
                       IF acc.current_section # <<>>
                       THEN DictSet(acc.sections, acc.current_section,
                                    Strip(JoinLines(acc.current_content)))
                       ELSE acc.sections,
                   current_section |-> Strip(lines[1]),
                   current_content |-> <<>>])
    ELSE IF acc.current_section # <<>> /\ Strip(lines[1]) # <<>>
         THEN ScanSections(Tail(lines),
                  [acc EXCEPT !.current_content = Append(@, Strip(lines[1]))])
    ELSE ScanSections(Tail(lines), acc)

\* the function with line 207 reading "if current_section:"
parse_lesson_sections_flush(content) ==
    IF content = <<>> THEN <<>>
    ELSE LET r == ScanSections(SplitLines(content),
                      [sections |-> <<>>, current_section |-> <<>>,
                       current_content |-> <<>>])
         IN  IF r.current_section # <<>>
             THEN DictSet(r.sections, r.current_section,
                          Strip(JoinLines(r.current_content)))
             ELSE r.sections

parse_lesson_sections(content) ==
    IF content = <<>> THEN <<>>
    ELSE LET r == ScanSections(SplitLines(content),
                      [sections |-> <<>>, current_section |-> <<>>,
                       current_content |-> <<>>])
         IN  IF r.current_section # <<>> /\ r.current_content # <<>>
             THEN DictSet(r.sections, r.current_section,
                          Strip(JoinLines(r.current_content)))
             ELSE r.sections

RECURSIVE UpdatedContent(_)
\* the list built by "for s, c in sections.items(): extend([s, c.strip(), ''])"
UpdatedContent(d) ==
    IF d = <<>> THEN <<>>
    ELSE <<d[1].key, Strip(d[1].value), <<>>>> \o UpdatedContent(Tail(d))

\* '\n'.join(updated_content)
Reserialize(d) == JoinLines(UpdatedContent(d))

----------------------------------------------------------------------------
(* The LLM collaborator and the user's inputs of streamlit_app.py *)

\* response.text of generate_lesson_plan
LessonText1 ==
    <<"Overview:", "\n", "foo", "\n", "Lesson Procedure:", "\n", "bar">>

LessonText2 ==
    <<"intro", "\n", "**", "Overview:", "**", "\n", " ", "foo", " ", "\n",
      "\n", "bar", "\n", "Lesson Procedure:">>

LessonTexts == {LessonText1, LessonText2}

\* response.text of regenerate_section
RegenTexts == {<<" ", "new", "\n">>}

\* what the user can type into a section's text area
EditBodies == {<<"baz">>, <<>>}

\* the sidebar inputs; with subject "Other" the topic is a free text input
Form(subject, topic, objectives) ==
    [grade_level |-> "K-2", subject_area |-> subject, specific_topic |-> topic,
     delivery_timeline |-> "Asynchronous", objectives |-> objectives,
     materials_budget |-> 50]

\* the form as the widgets' defaults fill it
DefaultForm == Form("Science", "Biology", "")

Forms ==
    {DefaultForm, Form("Science", "Biology", "Learn"), Form("Other", "", "Learn")}

----------------------------------------------------------------------------
(* The lesson-plan builder, streamlit_app.py.  A lesson is a Python dict:   *)
(* heap maps the references of the live dicts to their contents, and        *)
(* current_lesson and the entries of generated_lessons are references.      *)

NoRef == 0

Refs == 1..(MaxLessons + 1)

Range(f) == {f[k] : k \in DOMAIN f}

\* the reference of a newly created dict: one that no live dict has
FreshRef(used) == CHOOSE r \in Refs \ used : \A r2 \in Refs \ used : r <= r2

NoEdit == [section |-> <<>>, body |-> <<>>]

CurrentSections ==
    IF current_lesson = NoRef THEN <<>>
    ELSE parse_lesson_sections(heap[current_lesson].content)

\* the buttons of the page as the last run rendered them
LButtons ==
    (IF Len(generated_lessons) < MaxLessons THEN {<<"generate", 0>>} ELSE {})
    \cup (IF current_lesson # NoRef /\ current_view = "edit"
          THEN {<<"regen", CurrentSections[j].key>> :
                    j \in 1..Len(CurrentSections)}
          ELSE {})
    \cup (IF current_lesson # NoRef
          THEN {<<"history", idx>> : idx \in 0..(Len(generated_lessons) - 1)}
          ELSE {})

\* the text-area edits the user can have made on the page as last rendered
Edits ==
    {NoEdit}
    \cup (IF current_lesson # NoRef /\ current_view = "edit"
          THEN {[section |-> CurrentSections[j].key, body |-> b] :
                    j \in 1..Len(CurrentSections), b \in EditBodies}
          ELSE {})

LessonInit ==
    /\ heap = <<>>
    /\ current_lesson = NoRef
    /\ generated_lessons = <<>>
    /\ current_view = "edit"
    /\ clock = 0
    /\ lpc = "idle"
    /\ lpressed = {}
    /\ edit = NoEdit
    /\ form = DefaultForm
    /\ sections = <<>>
    /\ sj = 0

\* a user interaction starts a script run carrying at most MaxPressed widget
\* events; lines 348-373 read the widgets.  The form is read by the generate
\* handler alone.
LInteract ==
    /\ lpc = "idle"
    /\ current_view' \in {"edit", "view"}
    /\ edit' \in Edits
    /\ lpressed' \in {P \in SUBSET LButtons :
           Cardinality(P) + (IF edit' = NoEdit THEN 0 ELSE 1) <= MaxPressed}
    /\ form' \in IF <<"generate", 0>> \in lpressed' THEN Forms ELSE {DefaultForm}
    /\ lpc' = "generate"
    /\ UNCHANGED notLessonVars
    /\ UNCHANGED <<heap, current_lesson, generated_lessons, clock, sections, sj>>

\* lines 390-399
NewLesson(f, t, text) ==
    [timestamp |-> t, grade_level |-> f.grade_level,
     subject_area |-> f.subject_area, specific_topic |-> f.specific_topic,
     delivery_timeline |-> f.delivery_timeline, objectives |-> f.objectives,
     materials_budget |-> f.materials_budget, content |-> text]

\* line 401: the reference appended to the history, new being the reference
\* of new_lesson and copy the reference of new_lesson.copy()
CommitEntryAlias(new, copy) == new

CommitEntry(new, copy) == copy

\* line 401: the history after the append
CommitHistoryReplace(history, entry) == <<entry>>

CommitHistoryDrop(history, entry) == history

CommitHistory(history, entry) == Append(history, entry)

\* the live dicts after current_lesson and generated_lessons are assigned
LiveHeap(h, cur, history) ==
    [r \in ({cur} \cup Range(history)) \ {NoRef} |-> h[r]]

\* "Generate Lesson Plan" with objectives, the LLM returning text
GenerateLesson ==
    /\ lpc = "generate"
    /\ <<"generate", 0>> \in lpressed
    /\ form.objectives # ""
    /\ \E text \in LessonTexts, t \in {clock + 1} :
        LET new == FreshRef(Range(generated_lessons))
            copy == FreshRef(Range(generated_lessons) \cup {new})
            h == [r \in Refs |->
                     IF r \in {new, copy} THEN NewLesson(form, t, text)
                     ELSE IF r \in DOMAIN heap THEN heap[r] ELSE <<>>]
        IN  /\ current_lesson' = new
            /\ generated_lessons' =
                   CommitHistory(generated_lessons, CommitEntry(new, copy))
            /\ heap' = LiveHeap(h, current_lesson', generated_lessons')
            /\ clock' = t
    /\ lpc' = "display"
    /\ lpressed' = lpressed \ {<<"generate", 0>>}
    /\ UNCHANGED notLessonVars
    /\ UNCHANGED <<current_view, edit, form, sections, sj>>

\* "Generate Lesson Plan" with objectives, generate_lesson_plan returning None
\* (the call raised) or an empty text
GenerateLessonFail ==
    /\ lpc = "generate"
    /\ <<"generate", 0>> \in lpressed
    /\ form.objectives # ""
    /\ lpc' = "display"
    /\ lpressed' = lpressed \ {<<"generate", 0>>}
    /\ UNCHANGED notLessonVars
    /\ UNCHANGED <<heap, current_lesson, generated_lessons, current_view,
                   clock, edit, form, sections, sj>>

\* "Generate Lesson Plan" without objectives: st.error
GenerateLessonNoObjectives ==
    /\ lpc = "generate"
    /\ <<"generate", 0>> \in lpressed
    /\ form.objectives = ""
    /\ lpc' = "display"
    /\ lpressed' = lpressed \ {<<"generate", 0>>}
    /\ UNCHANGED notLessonVars
    /\ UNCHANGED <<heap, current_lesson, generated_lessons, current_view,
                   clock, edit, form, sections, sj>>

SkipGenerateLesson ==
    /\ lpc = "generate"
    /\ <<"generate", 0>> \notin lpressed
    /\ lpc' = "display"
    /\ UNCHANGED notLessonVars
    /\ UNCHANGED <<heap, current_lesson, generated_lessons, current_view,
                   clock, lpressed, edit, form, sections, sj>>

\* line 405 with no current lesson: nothing below it runs
DisplayNothing ==
    /\ lpc = "display"
    /\ current_lesson = NoRef
    /\ lpc' = "end"
    /\ UNCHANGED notLessonVars
    /\ UNCHANGED <<heap, current_lesson, generated_lessons, current_view,
                   clock, lpressed, edit, form, sections, sj>>

\* display_lesson_plan_view: nothing is stored
DisplayView ==
    /\ lpc = "display"
    /\ current_lesson # NoRef
    /\ current_view # "edit"
    /\ lpc' = "history"
    /\ UNCHANGED notLessonVars
    /\ UNCHANGED <<heap, current_lesson, generated_lessons, current_view,
                   clock, lpressed, edit, form, sections, sj>>

\* display_lesson_plan_edit up to line 298: the sections are parsed once
DisplayEdit ==
    /\ lpc = "display"
    /\ current_lesson # NoRef
    /\ current_view = "edit"
    /\ sections' = parse_lesson_sections(heap[current_lesson].content)
    /\ sj' = 1
    /\ lpc' = IF sections' = <<>> THEN "history" ELSE "edit"
    /\ UNCHANGED notLessonVars
    /\ UNCHANGED <<heap, current_lesson, generated_lessons, current_view,
                   clock, lpressed, edit, form>>

\* what the text area of the section at sj returns
EditedContent ==
    IF edit.section = sections[sj].key THEN edit.body ELSE sections[sj].value

\* lines 312-318: the text area of a section returns a changed body
EditSection ==
    /\ lpc = "edit"
    /\ EditedContent # sections[sj].value
    /\ sections' = DictSet(sections, sections[sj].key, EditedContent)
    /\ heap' = [heap EXCEPT ![current_lesson].content = Reserialize(sections')]
    /\ lpc' = "regen"
    /\ UNCHANGED notLessonVars
    /\ UNCHANGED <<current_lesson, generated_lessons, current_view, clock,
                   lpressed, edit, form, sj>>

SkipEdit ==
    /\ lpc = "edit"
    /\ EditedContent = sections[sj].value
    /\ lpc' = "regen"
    /\ UNCHANGED notLessonVars
    /\ UNCHANGED <<heap, current_lesson, generated_lessons, current_view,
                   clock, lpressed, edit, form, sections, sj>>

\* where the run goes after the widgets of the section at j
AfterSection(d, j) == IF j < Len(d) THEN "edit" ELSE "history"

\* lines 321-337: the Regenerate button of a section, the LLM returning text;
\* st.experimental_rerun() ends the run
RegenerateSection ==
    /\ lpc = "regen"
    /\ <<"regen", sections[sj].key>> \in lpressed
    /\ \E text \in RegenTexts :
        LET new_content == Strip(text)
        IN  /\ new_content # <<>>
            /\ sections' = DictSet(sections, sections[sj].key, new_content)
    /\ heap' = [heap EXCEPT ![current_lesson].content = Reserialize(sections')]
    /\ lpc' = "end"
    /\ lpressed' = lpressed \ {<<"regen", sections[sj].key>>}
    /\ UNCHANGED notLessonVars
    /\ UNCHANGED <<current_lesson, generated_lessons, current_view, clock,
                   edit, form, sj>>

\* the Regenerate button of a section, regenerate_section returning None (the
\* call raised) or an empty text
RegenerateSectionFail ==
    /\ lpc = "regen"
    /\ <<"regen", sections[sj].key>> \in lpressed
    /\ lpc' = AfterSection(sections, sj)
    /\ sj' = IF lpc' = "edit" THEN sj + 1 ELSE sj
    /\ lpressed' = lpressed \ {<<"regen", sections[sj].key>>}
    /\ UNCHANGED notLessonVars
    /\ UNCHANGED <<heap, current_lesson, generated_lessons, current_view,
                   clock, edit, form, sections>>

SkipRegenerateSection ==
    /\ lpc = "regen"
    /\ <<"regen", sections[sj].key>> \notin lpressed
    /\ lpc' = AfterSection(sections, sj)
    /\ sj' = IF lpc' = "edit" THEN sj + 1 ELSE sj
    /\ UNCHANGED notLessonVars
    /\ UNCHANGED <<heap, current_lesson, generated_lessons, current_view,
                   clock, lpressed, edit, form, sections>>

\* line 424: the entry that enumerate(reversed(history)) shows at idx
HistoryIndexForward(history, idx) == idx + 1

HistoryIndex(history, idx) == Len(history) - idx

\* line 429: the reference stored, entry being the history entry's reference
\* and copy the reference of lesson.copy()
SelectRef(entry, copy) == copy

\* lines 424-430: the first pressed history button in display order
SelectFromHistory ==
    /\ lpc = "history"
    /\ \E idx \in 0..(Len(generated_lessons) - 1) :
        /\ <<"history", idx>> \in lpressed
        /\ \A j \in 0..(idx - 1) : <<"history", j>> \notin lpressed
        /\ LET entry == generated_lessons[HistoryIndex(generated_lessons, idx)]
               copy == FreshRef(Range(generated_lessons))
               h == [r \in Refs |->
                        IF r = copy THEN heap[entry]
                        ELSE IF r \in DOMAIN heap THEN heap[r] ELSE <<>>]
           IN  /\ current_lesson' = SelectRef(entry, copy)
               /\ heap' = LiveHeap(h, current_lesson', generated_lessons)
    /\ lpc' = "end"
    /\ UNCHANGED notLessonVars
    /\ UNCHANGED <<generated_lessons, current_view, clock, lpressed, edit,
                   form, sections, sj>>

SkipHistory ==
    /\ lpc = "history"
    /\ \A idx \in 0..(Len(generated_lessons) - 1) :
        <<"history", idx>> \notin lpressed
    /\ lpc' = "end"
    /\ UNCHANGED notLessonVars
    /\ UNCHANGED <<heap, current_lesson, generated_lessons, current_view,
                   clock, lpressed, edit, form, sections, sj>>

\* the run is over: its triggers are reset and its locals are dropped
LEndRun ==
    /\ lpc = "end"
    /\ lpc' = "idle"
    /\ lpressed' = {}
    /\ edit' = NoEdit
    /\ sections' = <<>>
    /\ sj' = 0
    /\ form' = DefaultForm
    /\ UNCHANGED notLessonVars
    /\ UNCHANGED <<heap, current_lesson, generated_lessons, current_view,
                   clock>>

LessonNext ==
    \/ LInteract
    \/ GenerateLesson
    \/ GenerateLessonFail
    \/ GenerateLessonNoObjectives
    \/ SkipGenerateLesson
    \/ DisplayNothing
    \/ DisplayView
    \/ DisplayEdit
    \/ EditSection
    \/ SkipEdit
    \/ RegenerateSection
    \/ RegenerateSectionFail
    \/ SkipRegenerateSection
    \/ SelectFromHistory
    \/ SkipHistory
    \/ LEndRun

----------------------------------------------------------------------------
(* The "Lesson Plan" page of streamlit_app_QuestionGen.py, lines 485-505,   *)
(* with render_lesson_plan and generate_single_question.  An uploaded file  *)
(* is the sequence of the heading tags of its page body; a section key      *)
(* f"section_{section_idx}" is section_idx.                                 *)

\* response.text of generate_single_question
SectionResponses == {RespMC, RespEmpty}

\* Python's None in the place of a question
NoQuestion == [none |-> TRUE]

\* lines 259-260, text being response.text
generate_single_question(qtype, text) ==
    LET questions == parse_generated_questions(text, qtype)
    IN  IF questions # <<>> THEN questions[1] ELSE NoQuestion

\* uploaded_file is None
NoFile == [none |-> TRUE]

\* lesson_plan_content is None
NoContent == [none |-> TRUE]

\* the files a user can upload; the empty sequence is an empty file
Files == {[html |-> [k \in 1..n |-> "h2"]] : n \in 0..MaxSections}

\* parse_notion_html as far as the page uses it: None for an empty text,
\* else the title and one section per heading
parse_notion_html(html_content) ==
    IF html_content = <<>> THEN NoContent
    ELSE [title |-> "Lesson Plan",
          sections |-> [k \in 1..Len(html_content) |->
                           [level |-> 2, content |-> <<>>]]]

\* read_html_file
read_html_file(file) ==
    IF file # NoFile THEN parse_notion_html(file.html) ELSE NoContent

NumSections(content) == IF content = NoContent THEN 0 ELSE Len(content.sections)

\* the list of section k holds an entry whose question is None
HasNone(k) ==
    /\ k \in DOMAIN section_questions
    /\ \E j \in 1..Len(section_questions[k]) :
           section_questions[k][j].question = NoQuestion

\* the entries stored in the session
RECURSIVE Stored(_)
Stored(keys) ==
    IF keys = {} THEN 0
    ELSE LET k == CHOOSE x \in keys : TRUE
         IN  Len(section_questions[k]) + Stored(keys \ {k})

\* the buttons of the page as the last run rendered them: display_question
\* raises on a None question, and nothing below it is rendered
SButtons ==
    IF lesson_plan_content = NoContent THEN {}
    ELSE {<<"clear", 0>>}
         \cup {<<"gen", k>> : k \in
                  {x \in 0..(NumSections(lesson_plan_content) - 1) :
                      /\ \A j \in 0..(x - 1) : ~HasNone(j)
                      /\ Stored(DOMAIN section_questions)
                             < MaxSectionQuestions}}

SectionInit ==
    /\ lesson_plan_content = NoContent
    /\ section_questions = <<>>
    /\ uploaded_file = NoFile
    /\ spc = "idle"
    /\ si = 0
    /\ spressed = {}

\* a user interaction starts a script run: the file uploader holds a file or
\* none, the triggers of the clicked buttons are set
SInteract ==
    /\ spc = "idle"
    /\ uploaded_file' \in {NoFile} \cup Files
    /\ spressed' \in {P \in SUBSET SButtons : Cardinality(P) <= MaxPressed}
    /\ spc' = "upload"
    /\ UNCHANGED notSectionVars
    /\ UNCHANGED <<lesson_plan_content, section_questions, si>>

\* lines 490-493
Upload ==
    /\ spc = "upload"
    /\ uploaded_file # NoFile
    /\ lesson_plan_content' = read_html_file(uploaded_file)
    /\ spc' = "clear"
    /\ UNCHANGED notSectionVars
    /\ UNCHANGED <<section_questions, uploaded_file, si, spressed>>

SkipUpload ==
    /\ spc = "upload"
    /\ uploaded_file = NoFile
    /\ spc' = "clear"
    /\ UNCHANGED notSectionVars
    /\ UNCHANGED <<lesson_plan_content, section_questions, uploaded_file, si,
                   spressed>>

\* lines 496-498: st.rerun() ends the run
ClearLessonPlan ==
    /\ spc = "clear"
    /\ lesson_plan_content # NoContent
    /\ <<"clear", 0>> \in spressed
    /\ lesson_plan_content' = NoContent
    /\ spc' = "end"
    /\ UNCHANGED notSectionVars
    /\ UNCHANGED <<section_questions, uploaded_file, si, spressed>>

\* line 496 false; lines 501-505 and the loop of line 159
SkipClearLessonPlan ==
    /\ spc = "clear"
    /\ ~(lesson_plan_content # NoContent /\ <<"clear", 0>> \in spressed)
    /\ spc' = IF NumSections(lesson_plan_content) > 0 THEN "gen" ELSE "end"
    /\ UNCHANGED notSectionVars
    /\ UNCHANGED <<lesson_plan_content, section_questions, uploaded_file, si,
                   spressed>>

\* lines 195-200: the list of section_key after the append
AppendQuestion(lists, section_key, entry) ==
    [k \in DOMAIN lists \cup {section_key} |->
        IF k = section_key
        THEN Append(IF k \in DOMAIN lists THEN lists[k] ELSE <<>>, entry)
        ELSE lists[k]]

\* lines 187-201: "Generate Question" of section si with a prompt, the LLM
\* returning text
GenerateQuestion ==
    /\ spc = "gen"
    /\ <<"gen", si>> \in spressed
    /\ \E qtype \in QuestionTypes, text \in SectionResponses :
        LET generated_question == generate_single_question(qtype, text)
        IN  section_questions' =
                AppendQuestion(section_questions, si,
                    [question |-> generated_question, type |-> qtype])
    /\ spc' = "show"
    /\ spressed' = spressed \ {<<"gen", si>>}
    /\ UNCHANGED notSectionVars
    /\ UNCHANGED <<lesson_plan_content, uploaded_file, si>>

\* "Generate Question" with a prompt, generate_content raising: lines 202-203
GenerateQuestionError ==
    /\ spc = "gen"
    /\ <<"gen", si>> \in spressed
    /\ spc' = "show"
    /\ spressed' = spressed \ {<<"gen", si>>}
    /\ UNCHANGED notSectionVars
    /\ UNCHANGED <<lesson_plan_content, section_questions, uploaded_file, si>>

\* "Generate Question" without a prompt: lines 204-205
GenerateQuestionNoPrompt ==
    /\ spc = "gen"
    /\ <<"gen", si>> \in spressed
    /\ spc' = "show"
    /\ spressed' = spressed \ {<<"gen", si>>}
    /\ UNCHANGED notSectionVars
    /\ UNCHANGED <<lesson_plan_content, section_questions, uploaded_file, si>>

SkipGenerateQuestion ==
    /\ spc = "gen"
    /\ <<"gen", si>> \notin spressed
    /\ spc' = "show"
    /\ UNCHANGED notSectionVars
    /\ UNCHANGED <<lesson_plan_content, section_questions, uploaded_file, si,
                   spressed>>

\* lines 208-216: the questions of section si are displayed
DisplayQuestions ==
    /\ spc = "show"
    /\ ~HasNone(si)
    /\ spc' = IF si + 1 < NumSections(lesson_plan_content) THEN "gen" ELSE "end"
    /\ si' = IF spc' = "gen" THEN si + 1 ELSE si
    /\ UNCHANGED notSectionVars
    /\ UNCHANGED <<lesson_plan_content, section_questions, uploaded_file,
                   spressed>>

\* line 264 on a None question: question['question'] raises TypeError, which
\* nothing catches, and the run is over
DisplayQuestionsCrash ==
    /\ spc = "show"
    /\ HasNone(si)
    /\ spc' = "end"
    /\ UNCHANGED notSectionVars
    /\ UNCHANGED <<lesson_plan_content, section_questions, uploaded_file, si,
                   spressed>>

SEndRun ==
    /\ spc = "end"
    /\ spc' = "idle"
    /\ si' = 0
    /\ spressed' = {}
    /\ UNCHANGED notSectionVars
    /\ UNCHANGED <<lesson_plan_content, section_questions, uploaded_file>>

SectionNext ==
    \/ SInteract
    \/ Upload
    \/ SkipUpload
    \/ ClearLessonPlan
    \/ SkipClearLessonPlan
    \/ GenerateQuestion
    \/ GenerateQuestionError
    \/ GenerateQuestionNoPrompt
    \/ SkipGenerateQuestion
    \/ DisplayQuestions
    \/ DisplayQuestionsCrash
    \/ SEndRun

----------------------------------------------------------------------------
(* The two parsers as functions of a text *)

NoParse == [by |-> "none", question_type |-> "", result |-> <<>>]

\* no text has been handed to a parser
ParserIdle ==
    /\ raw_text = <<>>
    /\ parsed = NoParse

\* the lines an LLM answer to a question prompt is made of
QuestionLines ==
    {<<"What?">>,
     <<"2.", " ", "Which?">>,
     <<"Question 1:", " ", "Who?">>,
     <<"a)", " ", "x">>,
     <<"b)", " ", "*", "y">>,
     <<"A)", " ", "y", " ", "(correct)">>,
     <<"c)", " ", "incorrect">>,
     <<"a)", " ", "*">>,
     <<"Answer:", " ", "True">>,
     <<"Correct:", " ", "false">>,
     <<"Sky?", " ", "Answer:", " ", "True">>,
     <<" ">>}

\* the lines an LLM answer to a lesson prompt is made of
SectionLines ==
    {<<"Overview:">>,
     <<" ", "Overview:">>,
     <<"**", "Lesson Procedure:", "**">>,
     <<" ", "foo", " ">>,
     <<"What?">>,
     <<>>}

\* the texts of at most n lines taken from a set of lines
TextsOf(lines, n) ==
    {JoinLines(t) : t \in UNION {[1..k -> lines] : k \in 0..n}}

QuestionTexts == TextsOf(QuestionLines, MaxLines)

SectionTexts == TextsOf(SectionLines, MaxSectionLines)

\* parse_generated_questions(text, question_type) is called
ParseQuestions ==
    /\ parsed = NoParse
    /\ raw_text \in QuestionTexts
    /\ \E qtype \in QuestionTypes :
        parsed' = [by |-> "parse_generated_questions", question_type |-> qtype,
                   result |-> parse_generated_questions(raw_text, qtype)]
    /\ UNCHANGED notParserVars
    /\ UNCHANGED raw_text

\* parse_lesson_sections(content) is called
ParseSections ==
    /\ parsed = NoParse
    /\ raw_text \in SectionTexts
    /\ parsed' = [by |-> "parse_lesson_sections", question_type |-> "",
                  result |-> parse_lesson_sections(raw_text)]
    /\ UNCHANGED notParserVars
    /\ UNCHANGED raw_text

ParserNext ==
    \/ ParseQuestions
    \/ ParseSections

----------------------------------------------------------------------------
(* regenerate_single_question of streamlit_app_QuestionGen.py, lines 309-344. *)
(* No line of the repository calls it; the actions below are a caller        *)
(* awaiting it between two script runs, on a session that a load and some    *)
(* answers have produced.                                                    *)

\* n counts the calls made so far
NoCall ==
    [n |-> 0, index |-> 0, question_type |-> "", text |-> <<>>,
     raised |-> FALSE, result |-> "none"]

\* the indexes a caller passes
Indexes == (-MaxIndex - 1)..MaxIndex

\* list[index] exists: Python counts a negative index from the end
InRange(qs, index) == -Len(qs) <= index /\ index < Len(qs)

\* the position, counted from 1, that list[index] names
Position(qs, index) == IF index < 0 THEN Len(qs) + index + 1 ELSE index + 1

\* a session as a load followed by answers leaves it
HelperInit ==
    /\ \E text \in Responses, qtype \in QuestionTypes :
           generated_questions = parse_generated_questions(text, qtype)
    /\ total_questions = Len(generated_questions)
    /\ credited \in SUBSET {i \in 0..(Len(generated_questions) - 1) :
                               Scored(At(generated_questions, i))}
    /\ answered_questions \in {A \in SUBSET (0..(Len(generated_questions) - 1)) :
                                  credited \subseteq A}
    /\ current_score = Cardinality(credited)
    /\ pc = "idle"
    /\ qi = 0
    /\ pressed = {}
    /\ question_type = "Multiple Choice"
    /\ topic_prompt = <<>>
    /\ model_bound = FALSE
    /\ user_answer = <<>>
    /\ LessonInit
    /\ call = NoCall
    /\ SectionInit
    /\ ParserIdle

\* lines 334-341: the LLM returns text that parses to a question and
\* generated_questions[index] exists
HelperReplace ==
    /\ pc = "idle"
    /\ call.n < MaxCalls
    /\ \E qtype \in QuestionTypes, index \in Indexes, text \in Responses :
        LET new_questions == parse_generated_questions(text, qtype)
        IN  /\ new_questions # <<>>
            /\ InRange(generated_questions, index)
            /\ generated_questions' =
                   [generated_questions EXCEPT
                        ![Position(generated_questions, index)] = new_questions[1]]
            /\ answered_questions' = answered_questions \ {index}
            /\ credited' = credited \ {Position(generated_questions, index) - 1}
            /\ call' = [n |-> call.n + 1, index |-> index,
                        question_type |-> qtype, text |-> text,
                        raised |-> FALSE, result |-> "True"]
    /\ UNCHANGED notHelperVars
    /\ UNCHANGED <<current_score, total_questions, pc, qi, pressed,
                   question_type, topic_prompt, model_bound, user_answer>>

\* line 338 raises IndexError: the except clause of line 342 catches it,
\* st.error shows it and the function returns False
HelperIndexError ==
    /\ pc = "idle"
    /\ call.n < MaxCalls
    /\ \E qtype \in QuestionTypes, index \in Indexes, text \in Responses :
        /\ parse_generated_questions(text, qtype) # <<>>
        /\ ~InRange(generated_questions, index)
        /\ call' = [n |-> call.n + 1, index |-> index,
                    question_type |-> qtype, text |-> text,
                    raised |-> FALSE, result |-> "False"]
    /\ UNCHANGED notHelperVars
    /\ UNCHANGED quizVars

\* line 337 with no parsed question: the function falls off its end
HelperNothing ==
    /\ pc = "idle"
    /\ call.n < MaxCalls
    /\ \E qtype \in QuestionTypes, index \in Indexes, text \in Responses :
        /\ parse_generated_questions(text, qtype) = <<>>
        /\ call' = [n |-> call.n + 1, index |-> index,
                    question_type |-> qtype, text |-> text,
                    raised |-> FALSE, result |-> "None"]
    /\ UNCHANGED notHelperVars
    /\ UNCHANGED quizVars

\* generate_content or response.text raises: lines 342-344
HelperError ==
    /\ pc = "idle"
    /\ call.n < MaxCalls
    /\ \E qtype \in QuestionTypes, index \in Indexes :
        call' = [n |-> call.n + 1, index |-> index,
                 question_type |-> qtype, text |-> <<>>,
                 raised |-> TRUE, result |-> "False"]
    /\ UNCHANGED notHelperVars
    /\ UNCHANGED quizVars

HelperNext ==
    \/ HelperReplace
    \/ HelperIndexError
    \/ HelperNothing
    \/ HelperError

----------------------------------------------------------------------------
(* Specifications *)

Init == QuizInit /\ LessonInit /\ call = NoCall /\ SectionInit /\ ParserIdle

\* awaited calls of regenerate_single_question
HelperSpec == HelperInit /\ [][HelperNext]_vars

\* a session on the Lesson Plan page of streamlit_app_QuestionGen.py
SectionSpec == Init /\ [][SectionNext]_vars

\* no session is open and a text is given
ParserInit ==
    /\ QuizInit
    /\ LessonInit
    /\ call = NoCall
    /\ SectionInit
    /\ raw_text \in QuestionTexts \cup SectionTexts
    /\ parsed = NoParse

\* calls of parse_generated_questions and parse_lesson_sections
ParserSpec == ParserInit /\ [][ParserNext]_vars

\* a session of streamlit_app_QuestionGen.py
QuizSpec == Init /\ [][QuizNext]_vars

\* a session of streamlit_app.py
LessonSpec == Init /\ [][LessonNext]_vars

----------------------------------------------------------------------------
(* Properties of the quiz session, checked under QuizSpec *)

\* C1: in every reachable state of the quiz session
\* current_score <= |answered_questions| <= total_questions.
C1_ScoreBounded ==
    /\ current_score <= Cardinality(answered_questions)
    /\ Cardinality(answered_questions) <= total_questions

\* a regeneration has replaced a question by one of another type while a
\* point earned on another question is still counted
C1_Witness ==
    /\ Len(generated_questions) = 2
    /\ At(generated_questions, 0).type # At(generated_questions, 1).type
    /\ current_score = 1
    /\ Cardinality(answered_questions) = 2

\* C2: a regeneration of question i removes i from answered_questions and
\* takes one point (never below 0) if i had been counted correct; otherwise
\* it leaves current_score as it is.
C2_RegenerateScore ==
    [][Regenerate =>
         /\ answered_questions' = answered_questions \ {qi}
         /\ current_score' = IF qi \in credited
                             THEN Max(0, current_score - 1)
                             ELSE current_score]_vars

\* C3: in every reachable state current_score is at most the number of
\* answered questions whose current type is multiple_choice or true_false.
C3_ScoreWithinScored ==
    current_score <=
        Cardinality({i \in answered_questions :
                        /\ i < Len(generated_questions)
                        /\ Scored(At(generated_questions, i))})

\* a sample answer has been shown on a question a regeneration turned into a
\* short_answer or open_ended one, next to a counted multiple_choice or
\* true_false question
C3_Witness ==
    /\ current_score = 1
    /\ \E i \in answered_questions : ~Scored(At(generated_questions, i))
    /\ \E i \in answered_questions : Scored(At(generated_questions, i))

\* the answer matches correct_answer: exact equality for multiple_choice,
\* case-insensitive for true_false
Matches(q, answer) ==
    IF q.type = "multiple_choice" THEN answer = q.correct_answer
    ELSE Lower(answer) = Lower(q.correct_answer)

\* C4: Submit on question i adds i to answered_questions whatever the answer;
\* on an unanswered question it adds one point iff the answer matches, on an
\* answered one it leaves the score; Show Sample Answer adds i and leaves the
\* score.
C4_SubmitAnswer ==
    [][/\ Submit =>
            /\ answered_questions' = answered_questions \cup {qi}
            /\ current_score' =
                   IF qi \notin answered_questions
                      /\ Matches(At(generated_questions, qi), user_answer')
                   THEN current_score + 1 ELSE current_score
       /\ ShowSampleAnswer =>
            /\ answered_questions' = answered_questions \cup {qi}
            /\ current_score' = current_score]_vars

\* the right answer has just been submitted on question 1, which had been
\* answered wrongly before: it stays answered and the score stays 0
C4_Witness ==
    /\ pc = "end"
    /\ Len(generated_questions) = 2
    /\ Scored(At(generated_questions, 1))
    /\ answered_questions = {1}
    /\ user_answer = At(generated_questions, 1).correct_answer
    /\ current_score = 0

\* C5: when the LLM call raises or returns text that holds no question, the
\* session state keeps its prior values.
C5_FailureKeepsState ==
    [][(\/ GenerateQuestionsError
        \/ RegenerateError
        \/ RegenerateNameError
        \/ RegenerateNothing
        \/ (GenerateQuestions /\ generated_questions' = <<>>))
       => UNCHANGED <<generated_questions, answered_questions, current_score,
                      total_questions>>]_vars

\* C10: a Generate Questions that obtains text replaces the question list by
\* the parsed list, empties answered_questions, sets current_score to 0 and
\* total_questions to the length of the new list.
C10_Load ==
    [][GenerateQuestions =>
         /\ \E text \in Responses :
                generated_questions' =
                    parse_generated_questions(text, question_type)
         /\ answered_questions' = {}
         /\ current_score' = 0
         /\ total_questions' = Len(generated_questions')]_vars

\* a load has replaced a list whose first question was short_answer or
\* open_ended (its Show Sample Answer button is among the run's triggers) by a
\* list of two multiple_choice or true_false questions
C10_Witness ==
    /\ pc = "clear"
    /\ model_bound
    /\ <<"show", 0>> \in pressed
    /\ Len(generated_questions) = 2
    /\ Scored(At(generated_questions, 0))
    /\ answered_questions = {}
    /\ current_score = 0
    /\ total_questions = 2

\* C11: Clear Questions, from any state of the session, leaves the question
\* list empty, answered_questions empty, current_score 0 and total_questions 0.
C11_Clear ==
    [][ClearQuestions =>
         /\ generated_questions' = <<>>
         /\ answered_questions' = {}
         /\ current_score' = 0
         /\ total_questions' = 0]_vars

\* the page showed two questions when Clear Questions was pressed together
\* with the Submit of question 1, no load took place in the run, and the list
\* is empty when the run reaches the question loop
C11_Witness ==
    /\ pc = "end"
    /\ ~model_bound
    /\ <<"submit", 1>> \in pressed
    /\ generated_questions = <<>>
    /\ answered_questions = {}
    /\ current_score = 0
    /\ total_questions = 0

\* C14: a regeneration of question i keeps the length of the list, every
\* question at another position and the membership of every other index in
\* answered_questions; position i holds the first question parsed from the
\* response.
C14_RegenerateFrame ==
    [][Regenerate =>
         /\ Len(generated_questions') = Len(generated_questions)
         /\ \A j \in 0..(Len(generated_questions) - 1) :
                j # qi =>
                    /\ At(generated_questions', j) = At(generated_questions, j)
                    /\ (j \in answered_questions' <=> j \in answered_questions)
         /\ \E text \in Responses :
                LET new_questions ==
                        parse_generated_questions(text, question_type)
                IN  /\ new_questions # <<>>
                    /\ At(generated_questions', qi) = new_questions[1]]_vars

\* the run ended at question 0 of two, which only the st.rerun() of a
\* regeneration does: question 0 now has another type than question 1, and
\* question 1 is still answered
C14_Witness ==
    /\ pc = "end"
    /\ qi = 0
    /\ Len(generated_questions) = 2
    /\ At(generated_questions, 0).type # At(generated_questions, 1).type
    /\ 1 \in answered_questions

----------------------------------------------------------------------------
(* Properties of regenerate_single_question, checked under HelperSpec *)

\* C12: a regeneration with an index outside the question list and a parsed
\* new question ends in an IndexError that reaches the caller, and leaves the
\* question list, answered_questions and current_score as they were.
C12_IndexErrorReachesCaller ==
    [][(/\ call' # call
        /\ ~call'.raised
        /\ parse_generated_questions(call'.text, call'.question_type) # <<>>
        /\ ~InRange(generated_questions, call'.index))
       => /\ call'.result = "IndexError"
          /\ UNCHANGED <<generated_questions, answered_questions,
                         current_score>>]_vars

----------------------------------------------------------------------------
(* Properties of the lesson session, checked under LessonSpec *)

\* C6: no step changes the content of a lesson already in the history.
C6_CopyOnCommit ==
    [][\A k \in 1..Len(generated_lessons) :
          /\ k <= Len(generated_lessons')
          /\ heap'[generated_lessons'[k]] = heap[generated_lessons[k]]]_vars

\* the lesson selected from the history has been edited
C6_Witness ==
    /\ Len(generated_lessons) = 2
    /\ current_lesson # NoRef
    /\ heap[current_lesson].timestamp = heap[generated_lessons[1]].timestamp
    /\ heap[current_lesson].content # heap[generated_lessons[1]].content

\* C7: the history is append-only: a successful generation appends exactly
\* one entry, the lesson just generated, at the end; no other step changes
\* the list.
C7_AppendOnly ==
    [][/\ GenerateLesson =>
            /\ Len(generated_lessons') = Len(generated_lessons) + 1
            /\ SubSeq(generated_lessons', 1, Len(generated_lessons))
                   = generated_lessons
            /\ heap'[generated_lessons'[Len(generated_lessons')]]
                   = heap'[current_lesson']
       /\ ~GenerateLesson => generated_lessons' = generated_lessons]_vars

\* two lessons are in the history, oldest first, and the older one has been
\* selected
C7_Witness ==
    /\ lpc = "idle"
    /\ Len(generated_lessons) = 2
    /\ heap[generated_lessons[1]].timestamp < heap[generated_lessons[2]].timestamp
    /\ current_lesson # NoRef
    /\ heap[current_lesson].timestamp = heap[generated_lessons[1]].timestamp

\* C8: the k-th button of the reversed display makes current_lesson a fresh
\* dict equal in every field to history[len-1-k] and leaves the history alone.
C8_SelectFromHistory ==
    [][SelectFromHistory =>
         \E idx \in 0..(Len(generated_lessons) - 1) :
            /\ <<"history", idx>> \in lpressed
            /\ \A j \in 0..(idx - 1) : <<"history", j>> \notin lpressed
            /\ heap'[current_lesson'] =
                   heap[generated_lessons[Len(generated_lessons) - idx]]
            /\ current_lesson' \notin Range(generated_lessons)
            /\ generated_lessons' = generated_lessons
            /\ \A k \in 1..Len(generated_lessons) :
                   heap'[generated_lessons[k]] = heap[generated_lessons[k]]]_vars

\* the older of two lessons has just been selected over an edited current
\* lesson
C8_Witness ==
    /\ lpc = "end"
    /\ Len(generated_lessons) = 2
    /\ current_lesson # NoRef
    /\ heap[current_lesson] = heap[generated_lessons[1]]
    /\ heap[generated_lessons[1]] # heap[generated_lessons[2]]
    /\ edit # NoEdit

\* C9: after the body of a section is replaced, parsing the reserialized
\* content gives the same labels in the same order, the section's label
\* mapped to the new body and every other label to its previous body.
C9_UpdateSectionRoundTrip ==
    [][/\ EditSection =>
            parse_lesson_sections(heap'[current_lesson].content)
                = DictSet(sections, sections[sj].key, EditedContent)
       /\ RegenerateSection =>
            \E text \in RegenTexts :
                parse_lesson_sections(heap'[current_lesson].content)
                    = DictSet(sections, sections[sj].key, Strip(text))]_vars

\* C13: a generation request with a required field missing (objectives or
\* specific topic of a lesson, topic prompt of the questions) is rejected
\* before the LLM is called: the handler reports it, no call is attempted and
\* no session state changes.
C13_MissingFieldRejected ==
    [][/\ (/\ lpc = "generate"
           /\ <<"generate", 0>> \in lpressed
           /\ (form.objectives = "" \/ form.specific_topic = "")
           /\ lpc' # lpc)
          => GenerateLessonNoObjectives
       /\ (/\ pc = "generate"
           /\ <<"generate", 0>> \in pressed
           /\ topic_prompt = <<>>
           /\ pc' # pc)
          => GenerateQuestionsNoTopic]_vars

----------------------------------------------------------------------------
(* Properties of the Lesson Plan page, checked under SectionSpec *)

\* C15: every entry of a section's question list holds a parsed question,
\* never None, and a generation whose text parses to no question leaves the
\* section's lists as they were.
C15_NoNullQuestion ==
    \A k \in DOMAIN section_questions :
        \A j \in 1..Len(section_questions[k]) :
            section_questions[k][j].question # NoQuestion

----------------------------------------------------------------------------
(* Properties of the parsers, checked under ParserSpec *)

\* the candidate blocks of the text, blank ones left out
Blocks == SelectSeq(ReSplit(raw_text), LAMBDA b : Strip(b) # <<>>)

\* the line is an option line whose text carries an asterisk or "correct"
MarkedOption(line) ==
    /\ StartsWithMarker(line)
    /\ (Contains(Tail(Strip(line)), "*") \/ ContainsCorrect(Tail(Strip(line))))

\* the line carries an answer label
IsAnswerLine(line) == Contains(line, "Answer:") \/ Contains(line, "Correct:")

\* the block has what a question of the type needs: for Multiple Choice a
\* last marked option line, after the first line, with text left once the
\* annotation is removed; for True/False a line with an answer label; for the
\* other types nothing more than its first line
WellFormed(block, qtype) ==
    LET lines == SplitLines(Strip(block))
    IN  CASE qtype = "Multiple Choice" ->
               \E k \in 2..Len(lines) :
                  /\ MarkedOption(lines[k])
                  /\ \A j \in (k + 1)..Len(lines) : ~MarkedOption(lines[j])
                  /\ CleanOption(Strip(Tail(Strip(lines[k])))) # <<>>
          [] qtype = "True/False" ->
               \E k \in 1..Len(lines) : IsAnswerLine(lines[k])
          [] OTHER -> TRUE

\* C16 as stated: for every question type, a text without a numbered-prefix
\* delimiter and without a "Question N:" marker parses to the empty list.
C16_NoDelimiterEmpty ==
    (parsed.by = "parse_generated_questions" /\ Len(ReSplit(raw_text)) = 1)
        => parsed.result = <<>>

\* C16: for every question type the parser returns one question for each
\* candidate block that is well-formed and nothing else, so a text none of
\* whose blocks is well-formed, an empty or blank text among them, parses to
\* the empty list; a text without a delimiter is one candidate block.
C16_EmptyWithoutWellFormedBlock ==
    parsed.by = "parse_generated_questions" =>
        /\ Len(parsed.result) =
               Cardinality({k \in 1..Len(Blocks) :
                               WellFormed(Blocks[k], parsed.question_type)})
        /\ (Strip(raw_text) = <<>> => parsed.result = <<>>)

\* a text that is not blank and holds no delimiter has been parsed as
\* True/False, and the list is empty
C16_Witness ==
    /\ parsed.by = "parse_generated_questions"
    /\ parsed.question_type = "True/False"
    /\ Strip(raw_text) # <<>>
    /\ Len(ReSplit(raw_text)) = 1
    /\ parsed.result = <<>>

\* C17: every multiple_choice question the parser returns has a question
\* text, at least one option and a correct_answer that is one of its options,
\* so that check_answer counts that option correct; a block none of whose
\* option lines carries an asterisk or "correct" yields no question.
C17_MultipleChoiceWellFormed ==
    parsed.by = "parse_generated_questions" =>
        /\ \A k \in 1..Len(parsed.result) :
               parsed.result[k].type = "multiple_choice" =>
                   /\ parsed.result[k].question # <<>>
                   /\ parsed.result[k].options # <<>>
                   /\ \E j \in 1..Len(parsed.result[k].options) :
                          parsed.result[k].options[j]
                              = parsed.result[k].correct_answer
                   /\ check_answer(parsed.result[k],
                                   parsed.result[k].correct_answer) = TRUE
        /\ parsed.question_type = "Multiple Choice" =>
               Len(parsed.result) <=
                   Cardinality({k \in 1..Len(Blocks) :
                       \E j \in 2..Len(SplitLines(Strip(Blocks[k]))) :
                           MarkedOption(SplitLines(Strip(Blocks[k]))[j])})

\* a Multiple Choice parse has returned a question with two options, the
\* second of them the correct answer
C17_Witness ==
    /\ parsed.by = "parse_generated_questions"
    /\ parsed.question_type = "Multiple Choice"
    /\ parsed.result # <<>>
    /\ Len(parsed.result[1].options) = 2
    /\ parsed.result[1].correct_answer = parsed.result[1].options[2]
    /\ parsed.result[1].correct_answer # parsed.result[1].options[1]

\* C18: a True/False parse emits a question for a block only if a line after
\* the block's first line carries "Answer:" or "Correct:", and for every such
\* block; each correct_answer is "True" or "False", "True" exactly when the
\* last such line holds "true" in any case.
C18_AnswerOnPayloadLine ==
    (parsed.by = "parse_generated_questions"
     /\ parsed.question_type = "True/False") =>
        LET answered ==
                SelectSeq(Blocks, LAMBDA b :
                    \E j \in 2..Len(SplitLines(Strip(b))) :
                        IsAnswerLine(SplitLines(Strip(b))[j]))
        IN  /\ Len(parsed.result) = Len(answered)
            /\ \A k \in 1..Len(parsed.result) :
                   LET lines == SplitLines(Strip(answered[k]))
                       last == CHOOSE j \in 2..Len(lines) :
                                   /\ IsAnswerLine(lines[j])
                                   /\ \A i \in (j + 1)..Len(lines) :
                                          ~IsAnswerLine(lines[i])
                   IN  /\ parsed.result[k].correct_answer
                              \in {<<"True">>, <<"False">>}
                       /\ parsed.result[k].correct_answer = <<"True">>
                              <=> Contains(Lower(lines[last]), "true")

RECURSIVE BodyLines(_, _, _)
\* the trimmed non-empty lines among lines[from..to]
BodyLines(lines, from, to) ==
    IF from > to THEN <<>>
    ELSE (IF Strip(lines[from]) # <<>> THEN <<Strip(lines[from])>> ELSE <<>>)
         \o BodyLines(lines, from + 1, to)

\* C19: the section parser returns a mapping whose keys are the trimmed
\* header lines in order of first appearance, each mapped to the newline-join
\* of the trimmed non-empty lines between the header and the next header (of
\* its last appearance, when a header line appears twice); lines before the
\* first header are in no section, and a last header without content opens
\* no section.
C19_SectionMapping ==
    parsed.by = "parse_lesson_sections" =>
        LET lines == SplitLines(raw_text)
            H == {k \in 1..Len(lines) : IsHeader(lines[k])}
            End(k) == IF \E j \in H : j > k
                      THEN (CHOOSE j \in H :
                                j > k /\ \A i \in H : i > k => j <= i) - 1
                      ELSE Len(lines)
            Body(k) == JoinLines(BodyLines(lines, k + 1, End(k)))
            Inc == {k \in H : End(k) = Len(lines) => Body(k) # <<>>}
            Key(k) == Strip(lines[k])
            First(key) == CHOOSE k \in Inc :
                              /\ Key(k) = key
                              /\ \A i \in Inc : Key(i) = key => k <= i
            Last(key) == CHOOSE k \in Inc :
                             /\ Key(k) = key
                             /\ \A i \in Inc : Key(i) = key => i <= k
            r == parsed.result
        IN  /\ {r[a].key : a \in 1..Len(r)} = {Key(k) : k \in Inc}
            /\ \A a, b \in 1..Len(r) :
                   a < b => First(r[a].key) < First(r[b].key)
            /\ \A a \in 1..Len(r) : r[a].value = Body(Last(r[a].key))

\* a text of four lines has been parsed: a line before any header, an
\* indented header, a line of content with blanks around it, and a header
\* with nothing after it; the mapping holds the first header alone, trimmed,
\* mapped to the trimmed line
C19_Witness ==
    /\ parsed.by = "parse_lesson_sections"
    /\ Len(SplitLines(raw_text)) = 4
    /\ ~IsHeader(SplitLines(raw_text)[1])
    /\ Strip(SplitLines(raw_text)[1]) # <<>>
    /\ IsHeader(SplitLines(raw_text)[2])
    /\ SplitLines(raw_text)[2] # Strip(SplitLines(raw_text)[2])
    /\ SplitLines(raw_text)[3] # Strip(SplitLines(raw_text)[3])
    /\ IsHeader(SplitLines(raw_text)[4])
    /\ Strip(SplitLines(raw_text)[4]) # Strip(SplitLines(raw_text)[2])
    /\ parsed.result = <<[key |-> Strip(SplitLines(raw_text)[2]),
                          value |-> Strip(SplitLines(raw_text)[3])]>>

\* C20: in every script run in which the refresh button of a displayed
\* question is pressed, runs in which Generate Questions was not pressed
\* included, the press reaches the LLM: when the LLM returns text that parses
\* to at least one question, the question is replaced in that run.
C20_RegenerateInEveryRun ==
    [][(pc = "refresh" /\ <<"refresh", qi>> \in pressed /\ pc' # pc)
       => (Regenerate \/ RegenerateNothing \/ RegenerateError)]_vars

\* C21: the helper and the inline handler are equivalent: a call of
\* regenerate_single_question that replaces the question of a displayed index
\* leaves the questions list, the answered set and the score that the
\* handler of the refresh button leaves from the same state with the same new
\* question.
C21_HelperEqualsHandler ==
    [][(/\ call'.n = call.n + 1
        /\ call'.result = "True"
        /\ call'.index >= 0)
       => LET q == parse_generated_questions(call'.text,
                                             call'.question_type)[1]
          IN  /\ generated_questions' =
                     RegenQuestions(generated_questions, call'.index, q)
              /\ answered_questions' =
                     RegenAnswered(answered_questions, call'.index)
              /\ current_score' =
                     RegenScore(answered_questions, current_score,
                                call'.index)]_vars

\* C22: in every state of a quiz session total_questions is the length of
\* the questions list and every member of answered_questions is an index of
\* the list.
C22_TotalAndAnsweredInList ==
    /\ total_questions = Len(generated_questions)
    /\ answered_questions \subseteq 0..(Len(generated_questions) - 1)

\* a list of two questions has been replaced by a list of one question in a
\* run that also carries the press of the second question's answer button:
\* the run has ended without handling that press, the new list unanswered
C22_Witness ==
    /\ pc = "end"
    /\ Len(generated_questions) = 1
    /\ \E b \in pressed : b[1] \in {"submit", "show"} /\ b[2] = 1
    /\ answered_questions = {}
    /\ total_questions = 1

\* the fields of a lesson other than its content
Metadata(lesson) ==
    [f \in {"timestamp", "grade_level", "subject_area", "specific_topic",
            "delivery_timeline", "objectives", "materials_budget"} |->
        lesson[f]]

\* C23: in every state of a lesson session current_lesson is a lesson exactly
\* when the history is not empty, and then its fields other than content are
\* those of some entry of the history.
C23_CurrentFromHistory ==
    /\ (current_lesson # NoRef) <=> (generated_lessons # <<>>)
    /\ current_lesson # NoRef =>
           \E k \in 1..Len(generated_lessons) :
               Metadata(heap[current_lesson]) =
                   Metadata(heap[generated_lessons[k]])

\* two lessons are in the history; the older one has been selected and a
\* section of it edited: the current lesson has the older entry's fields,
\* not the newer entry's, and a content that no entry has
C23_Witness ==
    /\ Len(generated_lessons) = 2
    /\ current_lesson # NoRef
    /\ Metadata(heap[current_lesson]) = Metadata(heap[generated_lessons[1]])
    /\ Metadata(heap[current_lesson]) # Metadata(heap[generated_lessons[2]])
    /\ \A k \in 1..2 :
           heap[current_lesson].content # heap[generated_lessons[k]].content

============================================================================
